---------------------------- MODULE Spec2Model ----------------------------
(* Model of finalproject_util.py: compress_decompress (batch transcode   *)
(* runner), get_noise_multiplier / add_noise (noise mixer) and wer.      *)
EXTENDS Integers, Sequences, FiniteSets, TLC

(* ------------------------------ bounds ------------------------------- *)
\* len(filepaths) * len(bitrates) of a batch call
MaxCombos == 2
\* output files present before the first call
MaxInitFiles == 2

(* ------------------------- generic helpers --------------------------- *)
SeqsUpTo(S, n) == UNION { [1..k -> S] : k \in 0..n }

RECURSIVE Concat(_)
Concat(ss) == IF ss = <<>> THEN <<>> ELSE Head(ss) \o Concat(Tail(ss))

(* ===================================================================== *)
(* compress_decompress                                                   *)
(* ===================================================================== *)
Codec == "libmp3lame"
filetype_fr == "wav"
filetype_to == "mp3"
folder_override == ""

(* input paths, as character sequences so that split("/") and [:-4] are  *)
(* computed; P1 and P2 share their basename                              *)
P1 == <<"a", "/", "x", ".", "w", "a", "v">>
P2 == <<"b", "/", "x", ".", "w", "a", "v">>
P3 == <<"y", ".", "w", "a", "v">>
InputPaths == {P1, P2, P3}
BitrateValues == {128, 64}

(* fp.split("/")[-1] : the part after the last "/" *)
RECURSIVE LastSegment(_)
LastSegment(s) ==
    IF \E k \in 1..Len(s) : s[k] = "/"
    THEN LastSegment(Tail(s))
    ELSE s

(* [:-4] : everything but the last four characters *)
DropLast4(s) == SubSeq(s, 1, Len(s) - 4)

Filename(fp) == DropLast4(LastSegment(fp))

(* new_path = audio/<to><override>/<filename>+<bitrate>kbps *)
NewPath(fp, bitrate) ==
    [folder |-> <<"audio", filetype_to, folder_override>>,
     name   |-> Filename(fp),
     kbps   |-> bitrate]

OutFile(np, ext) == [stem |-> np, ext |-> ext]

AllOutFiles ==
    { OutFile(NewPath(fp, b), e) :
        fp \in InputPaths, b \in BitrateValues, e \in {filetype_to, filetype_fr} }

(* "--yes" if os.path.isfile(...) else "" *)
YesFlag(exists) == IF exists THEN "--yes" ELSE ""

(* if arg1 or arg2: skip *)
ShouldSkip_FirstOnly(a1, a2) == a1 # ""
ShouldSkip_Both(a1, a2) == a1 # "" /\ a2 # ""
ShouldSkip(a1, a2) == a1 # "" \/ a2 # ""

(* the two command lines handed to os.system *)
EncodeCmd(fp, bitrate, np, a1) ==
    [op |-> "encode", src |-> fp, codec |-> Codec, kbps |-> bitrate,
     dst |-> OutFile(np, filetype_to), flag |-> a1]
DecodeCmd(np, a2) ==
    [op |-> "decode", src |-> OutFile(np, filetype_to), codec |-> "", kbps |-> 0,
     dst |-> OutFile(np, filetype_fr), flag |-> a2]

(* the statement reached after the encode os.system returns rc *)
AfterEncode_CheckStatus(rc) == IF rc = 0 THEN "decode" ELSE "next"
AfterEncode(rc) == "decode"

(* `continue`: the position of the next combination, <<0,0>> when the    *)
(* loops are exhausted                                                   *)
Continue_Break(i, j, nf, nb) ==
    IF i < nf THEN <<i + 1, 1>> ELSE <<0, 0>>
Continue(i, j, nf, nb) ==
    IF j < nb THEN <<i, j + 1>>
    ELSE IF i < nf THEN <<i + 1, 1>>
    ELSE <<0, 0>>

VARIABLES
    filepaths, bitrates,   \* arguments of compress_decompress
    files,                 \* output files present on disk
    run,                   \* 1 = first call, 2 = second call, same arguments
    i, j,                  \* loop positions (1-based), 0 outside the loops
    pc,                    \* "call","check","encode","decode","except","done"
    arg1, arg2,            \* locals
    rc1, rc2,              \* values returned by the two os.system calls
    visited                \* per call: one entry per combination considered

batchVars == <<filepaths, bitrates, files, run, i, j, pc, arg1, arg2, rc1, rc2, visited>>

VARIABLES
    nargs,      \* the arguments of add_noise, the same for both calls
    rng,        \* state of the process-wide random generator
    results,    \* what each add_noise call so far returned or raised
    written     \* audio files written by sf.write, in order

noiseVars == <<nargs, rng, results, written>>

VARIABLES
    ref, hyp,   \* the arguments of wer
    wres        \* <<>> before the call, then <<what wer returned or raised>>

werVars == <<ref, hyp, wres>>

vars == <<batchVars, noiseVars, werVars>>

Combos(fps, brs) ==
    Concat([a \in 1..Len(fps) |-> [b \in 1..Len(brs) |-> <<a, b>>]])

Invocations(v) == Concat([k \in 1..Len(v) |-> v[k].cmds])

BatchInit ==
    /\ filepaths \in SeqsUpTo(InputPaths, MaxCombos)
    /\ bitrates \in SeqsUpTo(BitrateValues, MaxCombos)
    /\ Len(filepaths) * Len(bitrates) <= MaxCombos
    /\ files \in { F \in SUBSET AllOutFiles : Cardinality(F) <= MaxInitFiles }
    /\ run = 1
    /\ i = 0 /\ j = 0
    /\ pc = "call"
    /\ arg1 = "" /\ arg2 = ""
    /\ rc1 = -1 /\ rc2 = -1
    /\ visited = <<>>

Goto(pos) ==
    /\ i' = pos[1]
    /\ j' = pos[2]
    /\ pc' = IF pos = <<0, 0>> THEN "done" ELSE "check"

(* entering the function: the two for-loops start (lines 26-29) *)
Call ==
    /\ pc = "call"
    /\ visited' = <<>>
    /\ Goto(IF Len(filepaths) > 0 /\ Len(bitrates) > 0 THEN <<1, 1>> ELSE <<0, 0>>)
    /\ UNCHANGED <<filepaths, bitrates, files, run, arg1, arg2, rc1, rc2>>
    /\ UNCHANGED <<noiseVars, werVars>>

(* lines 30-39: build the paths, test existence, skip or go on *)
Check ==
    /\ pc = "check"
    /\ LET fp == filepaths[i]
           np == NewPath(fp, bitrates[j])
           a1 == YesFlag(OutFile(np, filetype_to) \in files)
           a2 == YesFlag(OutFile(np, filetype_fr) \in files)
       IN /\ arg1' = a1
          /\ arg2' = a2
          /\ IF ShouldSkip(a1, a2)
             THEN /\ visited' = Append(visited,
                        [pos |-> <<i, j>>, state |-> "skipped", cmds |-> <<>>])
                  /\ Goto(Continue(i, j, Len(filepaths), Len(bitrates)))
             ELSE /\ visited' = Append(visited,
                        [pos |-> <<i, j>>, state |-> "running", cmds |-> <<>>])
                  /\ pc' = "encode"
                  /\ UNCHANGED <<i, j>>
    /\ rc1' = -1 /\ rc2' = -1
    /\ UNCHANGED <<filepaths, bitrates, files, run>>
    /\ UNCHANGED <<noiseVars, werVars>>

Last(v) == v[Len(v)]
SetLast(v, e) == [v EXCEPT ![Len(v)] = e]

(* lines 42-43: first os.system call. It either raises before a command  *)
(* is run, or runs the command; the command may or may not leave its     *)
(* output, and returns any exit status.                                  *)
Encode ==
    /\ pc = "encode"
    /\ LET fp == filepaths[i]
           np == NewPath(fp, bitrates[j])
           cmd == EncodeCmd(fp, bitrates[j], np, arg1)
       IN \/ /\ pc' = "except"
             /\ UNCHANGED <<files, rc1, visited, i, j>>
          \/ \E rc \in {0, 1}, wrote \in BOOLEAN :
               /\ files' = IF wrote THEN files \cup {cmd.dst} ELSE files
               /\ rc1' = rc
               /\ IF AfterEncode(rc) = "decode"
                  THEN /\ visited' = SetLast(visited,
                             [Last(visited) EXCEPT !.cmds = Append(@, cmd)])
                       /\ pc' = "decode"
                       /\ UNCHANGED <<i, j>>
                  ELSE /\ visited' = SetLast(visited,
                             [Last(visited) EXCEPT !.cmds = Append(@, cmd),
                                                   !.state = "finished"])
                       /\ Goto(Continue(i, j, Len(filepaths), Len(bitrates)))
    /\ UNCHANGED <<filepaths, bitrates, run, arg1, arg2, rc2>>
    /\ UNCHANGED <<noiseVars, werVars>>

(* lines 44-45: second os.system call; the decoder can only leave an     *)
(* output when its input file is there                                   *)
Decode ==
    /\ pc = "decode"
    /\ LET np == NewPath(filepaths[i], bitrates[j])
           cmd == DecodeCmd(np, arg2)
       IN \/ /\ pc' = "except"
             /\ UNCHANGED <<files, rc2, visited, i, j>>
          \/ \E rc \in {0, 1}, wrote \in BOOLEAN :
               /\ wrote => cmd.src \in files
               /\ files' = IF wrote THEN files \cup {cmd.dst} ELSE files
               /\ rc2' = rc
               /\ visited' = SetLast(visited,
                      [Last(visited) EXCEPT !.cmds = Append(@, cmd),
                                            !.state = "finished"])
               /\ Goto(Continue(i, j, Len(filepaths), Len(bitrates)))
    /\ UNCHANGED <<filepaths, bitrates, run, arg1, arg2, rc1>>
    /\ UNCHANGED <<noiseVars, werVars>>

(* lines 46-49: except BaseException: print, continue *)
Except ==
    /\ pc = "except"
    /\ visited' = SetLast(visited, [Last(visited) EXCEPT !.state = "raised"])
    /\ Goto(Continue(i, j, Len(filepaths), Len(bitrates)))
    /\ UNCHANGED <<filepaths, bitrates, files, run, arg1, arg2, rc1, rc2>>
    /\ UNCHANGED <<noiseVars, werVars>>

(* the caller invokes compress_decompress again with the same arguments *)
CallAgain ==
    /\ pc = "done"
    /\ run = 1
    /\ run' = 2
    /\ pc' = "call"
    /\ UNCHANGED <<filepaths, bitrates, files, i, j, arg1, arg2, rc1, rc2, visited>>
    /\ UNCHANGED <<noiseVars, werVars>>

BatchNext ==
    \/ Call
    \/ Check
    \/ Encode
    \/ Decode
    \/ Except
    \/ CallAgain

(* the batch runner not in use *)
BatchIdle ==
    /\ filepaths = <<>> /\ bitrates = <<>> /\ files = {}
    /\ run = 0 /\ i = 0 /\ j = 0 /\ pc = "idle"
    /\ arg1 = "" /\ arg2 = "" /\ rc1 = -1 /\ rc2 = -1 /\ visited = <<>>

(* ===================================================================== *)
(* get_noise_multiplier, add_noise                                       *)
(* ===================================================================== *)
\* longest signal
MaxSigLen == 2
\* longest noise
MaxNoiseLen == 4
\* the generator has states 0..MaxRngState
MaxRngState == 1

(* Sample arithmetic is exact: a value is n/d with d >= 0 in lowest      *)
(* terms; d = 0 stands for the IEEE specials (n > 0: inf, n < 0: -inf,   *)
(* n = 0: nan), which is what numpy's float division by zero yields.     *)
Abs(x) == IF x < 0 THEN -x ELSE x
Sign(x) == IF x < 0 THEN -1 ELSE IF x > 0 THEN 1 ELSE 0

RECURSIVE GCD(_, _)
GCD(a, b) == IF b = 0 THEN a ELSE GCD(b, a % b)

Rat(n, d) ==
    IF d = 0 THEN [n |-> Sign(n), d |-> 0]
    ELSE LET g == GCD(Abs(n), Abs(d))
         IN [n |-> Sign(d) * (n \div g), d |-> Abs(d) \div g]

FromInt(k) == [n |-> k, d |-> 1]
RatMul(x, y) == Rat(x.n * y.n, x.d * y.d)
RatDiv(x, y) == Rat(x.n * y.d * Sign(IF y.n = 0 THEN 1 ELSE y.n),
                    x.d * Abs(y.n))
RatAdd(x, y) == Rat(x.n * y.d + y.n * x.d, x.d * y.d)

RECURSIVE SumSq(_)
SumSq(x) == IF x = <<>> THEN 0 ELSE Head(x) * Head(x) + SumSq(Tail(x))

(* (x ** 2.).sum() / len(x) *)
MeanSquare(x) == Rat(SumSq(x), Len(x))

RECURSIVE IntPow10(_)
IntPow10(k) == IF k = 0 THEN 1 ELSE 10 * IntPow10(k - 1)

(* 10. ** (snr / 10.), for snr a multiple of 10 *)
Temp(snr) ==
    LET k == snr \div 10
    IN IF k >= 0 THEN Rat(IntPow10(k), 1) ELSE Rat(1, IntPow10(-k))

GetNoiseMultiplier_Times(signal, noise, snr) ==
    RatMul(RatDiv(MeanSquare(signal), MeanSquare(noise)), Temp(snr))
GetNoiseMultiplier(signal, noise, snr) ==
    LET MS_sig == MeanSquare(signal)
        MS_noise == MeanSquare(noise)
        temp == Temp(snr)
    IN RatDiv(MS_sig, RatMul(MS_noise, temp))

(* optional arguments: <<>> is None, <<v>> a value; Python truthiness *)
None == <<>>
Some(v) == <<v>>
Truthy(opt) == opt # None /\ opt[1] # 0

(* the process-wide generator: np.random.seed and np.random.randint *)
RngStates == 0..MaxRngState
SeedRng(seed) == seed % (MaxRngState + 1)
NextRng(r) == (r + 1) % (MaxRngState + 1)

(* np.random.randint(low, high): ValueError when low >= high *)
RandInt_Inclusive(low, high, r) ==
    IF low > high THEN [ok |-> FALSE, value |-> 0, rng |-> r]
    ELSE [ok |-> TRUE, value |-> low + (r % (high - low + 1)), rng |-> NextRng(r)]
RandInt(low, high, r) ==
    IF low >= high THEN [ok |-> FALSE, value |-> 0, rng |-> r]
    ELSE [ok |-> TRUE, value |-> low + (r % (high - low)), rng |-> NextRng(r)]

Min(a, b) == IF a < b THEN a ELSE b

(* x[lo:hi] for 0 <= lo, 0 <= hi *)
Slice(x, lo, hi) == SubSeq(x, lo + 1, Min(hi, Len(x)))

(* num_samples = len_sec * sr if len_sec else len(signal) *)
NumSamples(len_sec, sr, signal) ==
    IF Truthy(len_sec) THEN len_sec[1] * sr ELSE Len(signal)

(* a * to_add *)
Scale(a, x) == [k \in 1..Len(x) |-> RatMul(a, FromInt(x[k]))]

(* x + y on one-dimensional arrays, with numpy's broadcasting: equal     *)
(* lengths add element-wise, a length-1 operand is stretched, anything   *)
(* else is a ValueError                                                  *)
BroadcastAdd(x, y) ==
    IF Len(x) = Len(y)
    THEN [ok |-> TRUE, value |-> [k \in 1..Len(x) |-> RatAdd(FromInt(x[k]), y[k])]]
    ELSE IF Len(x) = 1
    THEN [ok |-> TRUE, value |-> [k \in 1..Len(y) |-> RatAdd(FromInt(x[1]), y[k])]]
    ELSE IF Len(y) = 1
    THEN [ok |-> TRUE, value |-> [k \in 1..Len(x) |-> RatAdd(FromInt(x[k]), y[1])]]
    ELSE [ok |-> FALSE, value |-> <<>>]

Raised(r, m) ==
    [kind |-> "ValueError", value |-> <<>>, start |-> -1, a |-> m,
     rng |-> r, write |-> <<>>]

(* the body of add_noise run on generator state r: what it returns or    *)
(* raises, the generator state it leaves and what it writes              *)
AddNoiseRun(args, r) ==
    IF Truthy(args.randomseed) /\ args.randomseed[1] < 0
    THEN Raised(r, None)                                   \* seed out of range
    ELSE
    LET r1 == IF Truthy(args.randomseed) THEN SeedRng(args.randomseed[1]) ELSE r
        a == GetNoiseMultiplier(args.signal, args.noise, args.snr)
        num_samples == NumSamples(args.len_sec, args.sr, args.signal)
        draw == RandInt(0, Len(args.noise) - num_samples, r1)
    IN IF ~draw.ok THEN Raised(r1, Some(a))
       ELSE
       LET noise_start == draw.value
           to_add == Slice(args.noise, noise_start, noise_start + num_samples)
           sum == BroadcastAdd(Slice(args.signal, 0, num_samples), Scale(a, to_add))
       IN IF ~sum.ok THEN Raised(draw.rng, Some(a))
          ELSE [kind |-> "return", value |-> sum.value, start |-> noise_start,
                a |-> Some(a), rng |-> draw.rng,
                write |-> IF args.filepath # None /\ args.filepath[1] # ""
                          THEN <<[path |-> args.filepath[1], data |-> sum.value,
                                  samplerate |-> args.sr]>>
                          ELSE <<>>]

SignalValues == {-1, 0}
NoiseValues == {0, 2}
SnrValues == {-10, 0, 10}
SrValues == {1, 2}
LenSecValues == {None, Some(0), Some(1), Some(2)}
FilepathValues == {None, Some("out.wav")}
SeedValues == {None, Some(-1), Some(0), Some(1)}


NoiseInit ==
    /\ nargs \in [signal : SeqsUpTo(SignalValues, MaxSigLen),
                  noise : SeqsUpTo(NoiseValues, MaxNoiseLen),
                  snr : SnrValues, sr : SrValues, len_sec : LenSecValues,
                  filepath : FilepathValues, randomseed : SeedValues]
    /\ rng \in RngStates
    /\ results = <<>>
    /\ written = <<>>

(* one call of add_noise with the arguments nargs *)
AddNoise ==
    /\ Len(results) < 2
    /\ LET out == AddNoiseRun(nargs, rng)
       IN /\ rng' = out.rng
          /\ results' = Append(results, out)
          /\ written' = written \o out.write
    /\ UNCHANGED nargs
    /\ UNCHANGED <<batchVars, werVars>>

(* other code of the process draws from the shared generator between     *)
(* the two calls                                                         *)
OtherRandomUse ==
    /\ Len(results) = 1
    /\ rng' \in RngStates \ {rng}
    /\ UNCHANGED <<nargs, results, written>>
    /\ UNCHANGED <<batchVars, werVars>>

NoiseNext ==
    \/ AddNoise
    \/ OtherRandomUse

NoiseIdle ==
    /\ nargs = <<>> /\ rng = 0 /\ results = <<>> /\ written = <<>>


(* ===================================================================== *)
(* wer                                                                   *)
(* ===================================================================== *)
\* most space-separated tokens in a string
MaxWords == 2

(* A string is the sequence of its space-separated tokens.               *)
RawTokens == {"I'm", "Fine", "fine", "!"}

(* jiwer.ExpandCommonEnglishContractions: 'm -> " am" *)
ExpandContractions(tok) == IF tok = "I'm" THEN <<"I", "am">> ELSE <<tok>>

(* jiwer.ToLowerCase *)
ToLowerCase(tok) ==
    IF tok = "I" THEN "i"
    ELSE IF tok = "Fine" THEN "fine"
    ELSE tok

(* jiwer.RemovePunctuation *)
RemovePunctuation(tok) == IF tok = "!" THEN "" ELSE tok

(* jiwer.ReduceToListOfListOfWords: split on " ", keep words of length >= 1 *)
RECURSIVE DropEmpty(_)
DropEmpty(toks) ==
    IF toks = <<>> THEN <<>>
    ELSE IF Head(toks) = "" THEN DropEmpty(Tail(toks))
    ELSE <<Head(toks)>> \o DropEmpty(Tail(toks))

(* the Compose pipeline of lines 116-126 *)
Transforms(toks) ==
    LET expanded == Concat([k \in 1..Len(toks) |-> ExpandContractions(toks[k])])
        lowered == [k \in 1..Len(expanded) |-> ToLowerCase(expanded[k])]
        nopunct == [k \in 1..Len(lowered) |-> RemovePunctuation(lowered[k])]
    IN DropEmpty(nopunct)

Min3(a, b, c) == Min(a, Min(b, c))

(* one row of the edit-distance table: prev is the row of the previous   *)
(* reference word, w that word, h the hypothesis                         *)
RECURSIVE LevRow(_, _, _, _)
LevRow(prev, w, h, cur) ==
    IF Len(cur) = Len(prev) THEN cur
    ELSE LET k == Len(cur)       \* column being filled, 1-based index k + 1
             cost == IF h[k] = w THEN 0 ELSE 1
         IN LevRow(prev, w, h,
              Append(cur, Min3(prev[k + 1] + 1, cur[k] + 1, prev[k] + cost)))

RECURSIVE LevRows(_, _, _)
LevRows(prev, r, h) ==
    IF r = <<>> THEN prev
    ELSE LevRows(LevRow(prev, Head(r), h, <<prev[1] + 1>>), Tail(r), h)

(* word-level edit distance (substitutions + deletions + insertions) *)
EditDistance(r, h) ==
    Last(LevRows([k \in 1..(Len(h) + 1) |-> k - 1], r, h))

(* jiwer.wer: edit distance over the reference word count; an empty      *)
(* reference is an error                                                 *)
Wer(reference, hypothesis) ==
    LET r == Transforms(reference)
        h == Transforms(hypothesis)
    IN IF r = <<>> THEN [kind |-> "error", num |-> 0, den |-> 0]
       ELSE [kind |-> "return", num |-> EditDistance(r, h), den |-> Len(r)]


WerInit ==
    /\ ref \in SeqsUpTo(RawTokens, MaxWords)
    /\ hyp \in SeqsUpTo(RawTokens, MaxWords)
    /\ wres = <<>>

WerCall ==
    /\ wres = <<>>
    /\ wres' = <<Wer(ref, hyp)>>
    /\ UNCHANGED <<ref, hyp>>
    /\ UNCHANGED <<batchVars, noiseVars>>

WerNext == WerCall

WerIdle == ref = <<>> /\ hyp = <<>> /\ wres = <<>>


Init == BatchInit /\ NoiseIdle /\ WerIdle
Next == BatchNext
Spec == Init /\ [][Next]_vars

InitNoise == NoiseInit /\ BatchIdle /\ WerIdle
NextNoise == NoiseNext
SpecNoise == InitNoise /\ [][NextNoise]_vars

InitWer == WerInit /\ BatchIdle /\ NoiseIdle
NextWer == WerNext
SpecWer == InitWer /\ [][NextWer]_vars

(* ===================================================================== *)
(* Properties of compress_decompress (checked under Spec)                *)
(* ===================================================================== *)
ToExists(a, b) == OutFile(NewPath(filepaths[a], bitrates[b]), filetype_to) \in files
FrExists(a, b) == OutFile(NewPath(filepaths[a], bitrates[b]), filetype_fr) \in files
Positions(v) == [k \in 1..Len(v) |-> v[k].pos]
IsPrefix(s, t) == Len(s) <= Len(t) /\ s = SubSeq(t, 1, Len(s))

(* C1: idempotent batch -- during a second call with the same arguments  *)
(* no transcoder invocation is issued, whatever the transcoder did       *)
(* during the first call.                                                *)
C1_SecondCallIssuesNothing ==
    (run = 2 /\ pc # "call") => Invocations(visited) = <<>>

(* C2: skip rule -- when at the existence check either output of the     *)
(* combination exists, that step issues no invocation, leaves the files  *)
(* as they are, records the combination as skipped and moves to the next *)
(* combination in order (or ends the loops); a skipped combination never *)
(* has an invocation.                                                    *)
C2_SkipRule ==
    [][ /\ (pc = "check" /\ (ToExists(i, j) \/ FrExists(i, j))) =>
             /\ Invocations(visited') = Invocations(visited)
             /\ files' = files
             /\ Len(visited') = Len(visited) + 1
             /\ Last(visited').pos = <<i, j>>
             /\ Last(visited').state = "skipped"
             /\ LET idx == (i - 1) * Len(bitrates) + j
                    all == Combos(filepaths, bitrates)
                IN IF idx = Len(all)
                   THEN pc' = "done"
                   ELSE pc' = "check" /\ <<i', j'>> = all[idx + 1]
        /\ \A k \in 1..Len(visited') :
             visited'[k].state = "skipped" => visited'[k].cmds = <<>>
      ]_vars

C2_Witness ==
    /\ run = 1
    /\ Len(visited) = 2
    /\ visited[1].state = "skipped"
    /\ FrExists(1, 1) /\ ~ToExists(1, 1)
    /\ visited[2].state = "finished"

(* C3: fault isolation -- the combinations considered so far are always  *)
(* the first ones of filepaths x bitrates in order, whatever failed on   *)
(* the way, and the call ends only after all len(filepaths) *            *)
(* len(bitrates) of them have been considered.                           *)
C3_FaultIsolation ==
    /\ IsPrefix(Positions(visited), Combos(filepaths, bitrates))
    /\ pc = "done" => Len(visited) = Len(filepaths) * Len(bitrates)
    /\ pc \in {"idle", "call", "check", "encode", "decode", "except", "done"}

C3_Witness ==
    /\ pc = "done"
    /\ Len(visited) = 2
    /\ visited[1].state = "raised"
    /\ visited[2].state = "finished"

(* C9 as stated: every combination that was not skipped and is over had  *)
(* exactly two invocations, the encode and then the decode.              *)
C9_ExactlyTwoInvocations ==
    \A k \in 1..Len(visited) :
        visited[k].state \in {"finished", "raised"} =>
            /\ Len(visited[k].cmds) = 2
            /\ visited[k].cmds[1].op = "encode"
            /\ visited[k].cmds[2].op = "decode"

(* C9 amended: a combination that is not skipped gets at most two        *)
(* invocations, the encode (input file to new_path.<to> at the bitrate)  *)
(* first and then the decode, which reads the file the encode was told   *)
(* to write and writes new_path.<fr>; it gets both whenever neither      *)
(* os.system call raises, whatever exit status the encode returned, and  *)
(* fewer than two exactly when one of the calls raised.                  *)
C9_EncodeThenDecode ==
    \A k \in 1..Len(visited) :
        LET e == visited[k]
            fp == filepaths[e.pos[1]]
            br == bitrates[e.pos[2]]
            n == Len(e.cmds)
        IN e.state # "skipped" =>
            /\ n <= 2
            /\ n >= 1 => /\ e.cmds[1].op = "encode"
                         /\ e.cmds[1].src = fp
                         /\ e.cmds[1].kbps = br
                         /\ e.cmds[1].dst.ext = filetype_to
                         /\ e.cmds[1].dst.stem.name = Filename(fp)
                         /\ e.cmds[1].dst.stem.kbps = br
            /\ n = 2 => /\ e.cmds[2].op = "decode"
                        /\ e.cmds[2].src = e.cmds[1].dst
                        /\ e.cmds[2].dst.stem = e.cmds[1].dst.stem
                        /\ e.cmds[2].dst.ext = filetype_fr
            /\ e.state = "finished" => n = 2
            /\ e.state = "raised" => n < 2
            /\ e.state = "running" => (k = Len(visited) /\
                                       \/ pc = "encode" /\ n = 0
                                       \/ pc = "decode" /\ n = 1
                                       \/ pc = "except" /\ n < 2)

(* the decode was issued although the encode returned a failure status *)
C9_Witness ==
    /\ Len(visited) >= 1
    /\ Last(visited).state = "finished"
    /\ Len(Last(visited).cmds) = 2
    /\ rc1 = 1
    /\ pc \in {"check", "done"}

(* C10: no issued invocation carries --yes; a flag is "--yes" only when  *)
(* its destination existed at the existence check, and then the          *)
(* combination was skipped.                                              *)
C10_NoYesIssued ==
    /\ \A k \in 1..Len(visited) : \A c \in 1..Len(visited[k].cmds) :
           visited[k].cmds[c].flag = ""
    /\ (Len(visited) > 0 /\ pc # "call") =>
         LET pos == Last(visited).pos
         IN /\ arg1 = "--yes" => ToExists(pos[1], pos[2])
            /\ arg2 = "--yes" => FrExists(pos[1], pos[2])
            /\ (arg1 = "--yes" \/ arg2 = "--yes") => Last(visited).state = "skipped"

C10_Witness ==
    /\ Len(visited) = 2
    /\ visited[1].state = "finished"
    /\ visited[2].state = "skipped"
    /\ arg1 = "--yes" /\ arg2 = ""

(* ===================================================================== *)
(* Properties of add_noise and get_noise_multiplier (under SpecNoise)    *)
(* ===================================================================== *)
NumSamplesOfCall ==
    IF nargs.len_sec # None /\ nargs.len_sec[1] # 0
    THEN nargs.len_sec[1] * nargs.sr
    ELSE Len(nargs.signal)

SeedAccepted == nargs.randomseed = None \/ nargs.randomseed[1] >= 0

(* C4: with len(noise) > num_samples (and a seed the generator accepts)  *)
(* every call returns a sequence of length min(num_samples, len(signal)) *)
C4_OutputLength ==
    \A k \in 1..Len(results) :
        (Len(nargs.noise) > NumSamplesOfCall /\ SeedAccepted) =>
            /\ results[k].kind = "return"
            /\ Len(results[k].value) = Min(NumSamplesOfCall, Len(nargs.signal))

(* C5: with an integer randomseed, two calls with the same arguments     *)
(* end the same way, with the same noise offset and the same output.     *)
C5_SeededDeterminism ==
    (Len(results) = 2 /\ nargs.randomseed # None) =>
        /\ results[1].kind = results[2].kind
        /\ results[1].start = results[2].start
        /\ results[1].value = results[2].value

NonZero(x) == \E k \in 1..Len(x) : x[k] # 0

(* C7: for a signal and a noise that are not all zero, the multiplier a  *)
(* computed for the call is mean_square(s) / (mean_square(n) *           *)
(* 10^(snr/10)) (stated by cross-multiplication in the integers), it is  *)
(* positive and finite, and the multiplier for snr + 10 is a / 10.       *)
C7_NoiseMultiplier ==
    \A k \in 1..Len(results) :
        (results[k].a # None /\ NonZero(nargs.signal) /\ NonZero(nargs.noise)) =>
            LET a == results[k].a[1]
                e == nargs.snr \div 10
                up == IF e >= 0 THEN IntPow10(e) ELSE 1
                down == IF e >= 0 THEN 1 ELSE IntPow10(-e)
                b == GetNoiseMultiplier(nargs.signal, nargs.noise, nargs.snr + 10)
            IN /\ a.d > 0 /\ a.n > 0
               /\ a.n * SumSq(nargs.noise) * Len(nargs.signal) * up
                    = a.d * SumSq(nargs.signal) * Len(nargs.noise) * down
               /\ b.d > 0
               /\ 10 * b.n * a.d = a.n * b.d

C7_Witness ==
    /\ Len(results) >= 1
    /\ results[1].a # None
    /\ nargs.snr = -10
    /\ Len(nargs.signal) = 2 /\ NonZero(nargs.signal)
    /\ Len(nargs.noise) = 3 /\ NonZero(nargs.noise)

(* ===================================================================== *)
(* Property of wer (under SpecWer)                                       *)
(* ===================================================================== *)
(* C8: when the normalized reference has at least one word, wer returns  *)
(* a value between 0 and 1 inclusive.                                    *)
C8_WerRange ==
    (wres # <<>> /\ Transforms(ref) # <<>>) =>
        /\ wres[1].kind = "return"
        /\ 0 <= wres[1].num
        /\ wres[1].num <= wres[1].den


=============================================================================
